---- MODULE Spec2Model ----
(***************************************************************************)
(* A model of debug-tools/extract_serialized_files.py: the FileExtractor   *)
(* class (payload normalisation, the heredoc and structured extractors     *)
(* with their path deduplication, the file-tree locator, the report, the   *)
(* artifact writer) and the command line loop of main().                   *)
(*                                                                         *)
(* Python str values are TLA+ strings; a character is a string of length   *)
(* one.  Regular expressions are modelled by the leftmost match that       *)
(* Python's backtracking matcher returns for the pattern in the source.    *)
(***************************************************************************)
EXTENDS Integers, Sequences, FiniteSets, TLC

VARIABLES
    pc,                 \* position of the running operation
    \* one extractor pass
    source,             \* which extractor runs: "heredoc" or "structured"
    text,               \* the text handed to an extractor or to the tree locator
    matches,            \* the match objects of re.finditer, in document order
    mi,                 \* number of matches the for loop has consumed
    files,              \* the dict the pass builds
    extracted,          \* the "Extracted: <path>" lines the pass printed, in order
    \* one call of _parse_json_content
    arg_content,        \* its argument content
    arg_is_request,     \* its argument is_request
    outcome,            \* how the call ended
    \* extract_all and _generate_report
    serialized_tree,    \* Optional[str]: what _extract_file_tree_from_text returned
    request_files,      \* dict of the request side
    response_files,     \* dict of the response side
    report,             \* the text _generate_report returned
    \* main and the FileExtractor it builds for each log file
    log_files,          \* sys.argv[1:], each with what the disk holds under it
    fi,                 \* number of log files the for loop has consumed
    total_files,        \* the tally
    stdout,             \* the error and tally lines main printed
    extractor,          \* the fields __init__ set
    request_head,       \* normalised request text
    response_head,      \* normalised response text
    structured_files,   \* the structured pass of the request side
    structured_response,\* the structured pass of the response side
    fs,                 \* the directories and files on disk that the tool made
    raised,             \* the exception on its way to main's handler, "" if none
    memo                \* what the pure steps give for the log files at hand; kept
                        \* beside the run so that each is worked out once

passVars == <<source, text, matches, mi, files, extracted>>

normVars == <<arg_content, arg_is_request, outcome>>

reportVars == <<serialized_tree, request_files, response_files, report>>

mainVars == <<log_files, fi, total_files, stdout, extractor, request_head,
              response_head, structured_files, structured_response, fs, raised, memo>>

vars == <<pc, passVars, normVars, reportVars, mainVars>>

(***************************************************************************)
(* Strings                                                                 *)
(***************************************************************************)
At(s, i) == SubSeq(s, i, i)

\* Body of value: the value is worked out once, then used under a name
With(value, Body(_)) == CHOOSE result \in {Body(x) : x \in {value}} : TRUE

Min(S) == CHOOSE m \in S : \A k \in S : m <= k

Max(S) == CHOOSE m \in S : \A k \in S : m >= k

\* s[i:].startswith(lit), 1-based
StartsWithAt(s, i, lit) ==
    /\ i >= 1
    /\ i + Len(lit) - 1 <= Len(s)
    /\ SubSeq(s, i, i + Len(lit) - 1) = lit

\* str.find(lit, from) with 1-based positions: 0 when lit does not occur
FindFrom(s, lit, from) ==
    LET hits == {k \in from..(Len(s) - Len(lit) + 1) : StartsWithAt(s, k, lit)}
    IN  IF hits = {} THEN 0 ELSE Min(hits)

\* str.rfind(lit): 0 when lit does not occur
RFind(s, lit) ==
    LET hits == {k \in 1..(Len(s) - Len(lit) + 1) : StartsWithAt(s, k, lit)}
    IN  IF hits = {} THEN 0 ELSE Max(hits)

\* the characters \s matches, among those the model's texts use
WhiteSpace == {" ", "\n", "\t"}

IsSpace(c) == c \in WhiteSpace

\* first position >= i of s that holds no whitespace (Len(s) + 1 if none)
SkipSpace(s, i) ==
    LET stops == {k \in i..Len(s) : ~IsSpace(At(s, k))}
    IN  IF stops = {} THEN Len(s) + 1 ELSE Min(stops)

\* str.strip()
Strip(s) ==
    LET keep == {k \in 1..Len(s) : ~IsSpace(At(s, k))}
    IN  IF keep = {} THEN "" ELSE SubSeq(s, Min(keep), Max(keep))

RECURSIVE ConcatRange(_, _, _)
\* f[lo] + ... + f[hi], halving the range
ConcatRange(f, lo, hi) ==
    IF lo > hi THEN ""
    ELSE IF lo = hi THEN f[lo]
    ELSE ConcatRange(f, lo, (lo + hi) \div 2) \o ConcatRange(f, (lo + hi) \div 2 + 1, hi)

\* "".join(seq[n:]), 1-based
Concat(seq, n) == ConcatRange(seq, n, Len(seq))

\* sep.join(parts[n:]) for a list of str
JoinStr(sep, parts, n) ==
    ConcatRange([k \in n..Len(parts) |-> IF k = n THEN parts[k] ELSE sep \o parts[k]],
                n, Len(parts))

Digit(d) == SubSeq("0123456789", d + 1, d + 1)

RECURSIVE IntToStr(_)
\* str(n) for n >= 0, as the f-string {counter} formats it
IntToStr(n) == IF n < 10 THEN Digit(n) ELSE IntToStr(n \div 10) \o Digit(n % 10)

\* os.path.splitext(p) on POSIX: the extension starts at the last dot of the
\* last path component, unless only dots precede it in that component
splitext(p) ==
    LET sepIndex == RFind(p, "/")
        dotIndex == RFind(p, ".")
    IN  IF /\ dotIndex > sepIndex
           /\ \E k \in (sepIndex + 1)..(dotIndex - 1) : At(p, k) # "."
        THEN [base |-> SubSeq(p, 1, dotIndex - 1), ext |-> SubSeq(p, dotIndex, Len(p))]
        ELSE [base |-> p, ext |-> ""]

(***************************************************************************)
(* dict: insertion-ordered keys and the value of each key                  *)
(***************************************************************************)
EmptyDict == [keys |-> << >>, val |-> << >>]

Range(seq) == {seq[k] : k \in 1..Len(seq)}

Has(d, k) == k \in Range(d.keys)

IndexOf(d, k) == CHOOSE n \in 1..Len(d.keys) : d.keys[n] = k

Get(d, k) == d.val[IndexOf(d, k)]

\* d[k] = v
DictSet(d, k, v) ==
    IF Has(d, k)
    THEN [d EXCEPT !.val[IndexOf(d, k)] = v]
    ELSE [keys |-> Append(d.keys, k), val |-> Append(d.val, v)]

RECURSIVE DictUpdateFrom(_, _, _)
DictUpdateFrom(d, other, n) ==
    IF n > Len(other.keys) THEN d
    ELSE DictUpdateFrom(DictSet(d, other.keys[n], other.val[n]), other, n + 1)

\* an update in which the entries already in d win
DictUpdateKeep(d, other) == DictUpdateFrom(other, d, 1)

\* d.update(other)
DictUpdate(d, other) == DictUpdateFrom(d, other, 1)

KeySet(d) == Range(d.keys)

(***************************************************************************)
(* Path deduplication: the while loop of both extractors                   *)
(***************************************************************************)
RECURSIVE DedupLoopFromVariant(_, _, _, _)
\* the loop with the slip of splitting the current candidate, not the original
DedupLoopFromVariant(filepath, original_filepath, counter, d) ==
    IF Has(d, filepath)
    THEN LET sp == splitext(filepath)
         IN  DedupLoopFromVariant(sp.base \o "_v" \o IntToStr(counter) \o sp.ext,
                                  original_filepath, counter + 1, d)
    ELSE filepath

RECURSIVE DedupLoop(_, _, _, _)
\* while filepath in files: filepath = f"{base}_v{counter}{ext}"; counter += 1
DedupLoop(filepath, original_filepath, counter, d) ==
    IF Has(d, filepath)
    THEN LET sp == splitext(original_filepath)
         IN  DedupLoop(sp.base \o "_v" \o IntToStr(counter) \o sp.ext,
                       original_filepath, counter + 1, d)
    ELSE filepath

\* the deduplication with `if` for `while`: one renaming, never checked again
UniquePathOnce(filepath, d) ==
    IF Has(d, filepath)
    THEN splitext(filepath).base \o "_v1" \o splitext(filepath).ext
    ELSE filepath

\* original_filepath = filepath; counter = 1; the while loop
UniquePath(filepath, d) == DedupLoop(filepath, filepath, 1, d)

(***************************************************************************)
(* Heredoc pattern  r"cat > ([^\s<]+) << 'EOF'\n(.*?)\nEOF"  with DOTALL   *)
(***************************************************************************)
HeredocOpen == "cat > "

HeredocMark == " << 'EOF'\n"

HeredocClose == "\nEOF"

\* end (exclusive) of the maximal run of [^\s<] starting at i
PathRunEnd(s, i) ==
    LET stops == {k \in i..Len(s) : IsSpace(At(s, k)) \/ At(s, k) = "<"}
    IN  IF stops = {} THEN Len(s) + 1 ELSE Min(stops)

NoMatch == [ok |-> FALSE, g1 |-> "", g2 |-> "", end |-> 0]

\* the match of the heredoc pattern that starts at position i, if there is one.
\* [^\s<]+ is greedy and the next literal starts with a space, so group 1 is
\* the maximal run; (.*?) is lazy, so group 2 ends at the first "\nEOF".
HeredocMatchAt(s, i) ==
    IF ~StartsWithAt(s, i, HeredocOpen) THEN NoMatch
    ELSE LET p0 == i + Len(HeredocOpen)
             p1 == PathRunEnd(s, p0)
         IN  IF p1 = p0 \/ ~StartsWithAt(s, p1, HeredocMark) THEN NoMatch
             ELSE LET c0 == p1 + Len(HeredocMark)
                      c1 == FindFrom(s, HeredocClose, c0)
                  IN  IF c1 = 0 THEN NoMatch
                      ELSE [ok |-> TRUE,
                            g1 |-> SubSeq(s, p0, p1 - 1),
                            g2 |-> SubSeq(s, c0, c1 - 1),
                            end |-> c1 + Len(HeredocClose)]

RECURSIVE FindIter(_, _, _)
\* re.finditer: the leftmost match at or after pos, then on from its end
FindIter(MatchAt(_, _), s, pos) ==
    LET starts == {k \in pos..Len(s) : MatchAt(s, k).ok}
    IN  IF starts = {} THEN << >>
        ELSE LET m == MatchAt(s, Min(starts))
             IN  <<m>> \o FindIter(MatchAt, s, m.end)

HeredocFindIter(s) == FindIter(HeredocMatchAt, s, 1)

(***************************************************************************)
(* Structured pattern                                                      *)
(*   r'#### filePath\s*```\s*([^`]+?)\s*```\s*#### fileContents\s*```      *)
(*     (?:[a-z]*\n)?(.*?)```'   with DOTALL                                *)
(***************************************************************************)
PathMarker == "#### filePath"

ContentsMarker == "#### fileContents"

\* A TLA+ string cannot hold the backtick: the model writes the backtick of the
\* source's pattern and of the texts as "~", which no text uses otherwise
BackTick == "~"

Fence == BackTick \o BackTick \o BackTick

Lower == {"a", "b", "c", "d", "e", "f", "g", "h", "i", "j", "k", "l", "m",
          "n", "o", "p", "q", "r", "s", "t", "u", "v", "w", "x", "y", "z"}

\* end (exclusive) of the maximal run of [a-z] starting at i
LowerRunEnd(s, i) ==
    LET stops == {k \in i..Len(s) : At(s, k) \notin Lower}
    IN  IF stops = {} THEN Len(s) + 1 ELSE Min(stops)

\* the match of the structured pattern that starts at position i, if any.
\* Every \s* is followed by a non-space literal, so it takes the whole run of
\* whitespace.  Between the first two fences stands a run R of non-backticks:
\* the leading \s* and the lazy group leave group 1 = R without its outer
\* whitespace, or the last character of R when R is all whitespace.  The
\* optional language line is taken whenever [a-z]*\n matches; group 2 ends at
\* the first fence after it.
StructuredMatchAt(s, i) ==
    IF ~StartsWithAt(s, i, PathMarker) THEN NoMatch
    ELSE LET q1 == SkipSpace(s, i + Len(PathMarker))
             r0 == q1 + Len(Fence)
             r1 == FindFrom(s, BackTick, r0)
         IN  IF \/ ~StartsWithAt(s, q1, Fence)
                \/ r1 = 0 \/ r1 = r0
                \/ ~StartsWithAt(s, r1, Fence)
             THEN NoMatch
             ELSE LET R  == SubSeq(s, r0, r1 - 1)
                      q2 == SkipSpace(s, r1 + Len(Fence))
                      q3 == SkipSpace(s, q2 + Len(ContentsMarker))
                      c0 == q3 + Len(Fence)
                      l1 == LowerRunEnd(s, c0)
                      c1 == IF StartsWithAt(s, l1, "\n") THEN l1 + 1 ELSE c0
                      c2 == FindFrom(s, Fence, c1)
                  IN  IF \/ ~StartsWithAt(s, q2, ContentsMarker)
                         \/ ~StartsWithAt(s, q3, Fence)
                         \/ c2 = 0
                      THEN NoMatch
                      ELSE [ok |-> TRUE,
                            g1 |-> IF Strip(R) = "" THEN At(R, Len(R)) ELSE Strip(R),
                            g2 |-> SubSeq(s, c1, c2 - 1),
                            end |-> c2 + Len(Fence)]

StructuredFindIter(s) == FindIter(StructuredMatchAt, s, 1)

(***************************************************************************)
(* File-tree locator                                                       *)
(***************************************************************************)
\* Optional[str]
None == [isNone |-> TRUE, s |-> ""]

Some(v) == [isNone |-> FALSE, s |-> v]

\* the list with its first two patterns in the other order
TreePatternsSwapped ==
    << [open |-> "<FILE_TREE>", gt |-> FALSE, close |-> "</FILE_TREE>"],
       [open |-> "<TEMPLATE_FILE_TREE>", gt |-> FALSE, close |-> "</TEMPLATE_FILE_TREE>"],
       [open |-> "<CODEBASE", gt |-> TRUE, close |-> "</CODEBASE>"] >>

\* the three patterns, in the order of the list: the opening literal, whether
\* a lazy .*?> follows it, and the closing literal
TreePatterns ==
    << [open |-> "<TEMPLATE_FILE_TREE>", gt |-> FALSE, close |-> "</TEMPLATE_FILE_TREE>"],
       [open |-> "<FILE_TREE>", gt |-> FALSE, close |-> "</FILE_TREE>"],
       [open |-> "<CODEBASE", gt |-> TRUE, close |-> "</CODEBASE>"] >>

\* re.search(pattern, text, re.DOTALL): group 1 of the leftmost match.  The
\* groups are lazy: the match starts at the first opening literal and group 1
\* ends at the first closing literal after its start.
TreeSearch(p, s) ==
    LET i == FindFrom(s, p.open, 1)
        j == IF i = 0 THEN 0
             ELSE IF p.gt THEN FindFrom(s, ">", i + Len(p.open))
             ELSE i + Len(p.open) - 1
        k == IF j = 0 THEN 0 ELSE FindFrom(s, p.close, j + 1)
    IN  IF k = 0 THEN None ELSE Some(SubSeq(s, j + 1, k - 1))

RECURSIVE TreeLoop(_, _)
\* for pattern in patterns: if match: return match.group(1).strip()
TreeLoop(s, n) ==
    IF n > Len(TreePatterns) THEN None
    ELSE LET m == TreeSearch(TreePatterns[n], s)
         IN  IF ~m.isNone THEN Some(Strip(m.s)) ELSE TreeLoop(s, n + 1)

\* _extract_file_tree_from_text
ExtractFileTree(s) == TreeLoop(s, 1)

(***************************************************************************)
(* Python values, as json.loads builds them                                *)
(***************************************************************************)
PyStr(v) == [t |-> "str", s |-> v, items |-> << >>, keys |-> << >>]

\* an int, held by its decimal text
PyInt(digits) == [t |-> "int", s |-> digits, items |-> << >>, keys |-> << >>]

PyNone == [t |-> "None", s |-> "", items |-> << >>, keys |-> << >>]

PyBool(lit) == [t |-> "bool", s |-> lit, items |-> << >>, keys |-> << >>]

PyList(vs) == [t |-> "list", s |-> "", items |-> vs, keys |-> << >>]

\* a dict with str keys: keys[n] maps to items[n]
PyDict(ks, vs) == [t |-> "dict", s |-> "", items |-> vs, keys |-> ks]

IsStr(v) == v.t = "str"

\* isinstance(v, dict) and key in v
HasKey(v, key) == v.t = "dict" /\ key \in Range(v.keys)

\* v[key] of a dict that has the key
Item(v, key) == v.items[CHOOSE n \in 1..Len(v.keys) : v.keys[n] = key]

RECURSIVE PyRepr(_)
\* repr(v); of a str, for one without quotes, backslashes or control characters
PyRepr(v) ==
    CASE v.t = "str"  -> "'" \o v.s \o "'"
      [] v.t = "int"  -> v.s
      [] v.t = "None" -> "None"
      [] v.t = "bool" -> IF v.s = "true" THEN "True" ELSE "False"
      [] v.t = "list" ->
            "[" \o JoinStr(", ", [n \in 1..Len(v.items) |-> PyRepr(v.items[n])], 1) \o "]"
      [] OTHER ->
            "{" \o JoinStr(", ", [n \in 1..Len(v.keys) |->
                                    "'" \o v.keys[n] \o "': " \o PyRepr(v.items[n])], 1) \o "}"

\* str(v), as an f-string formats {v}
PyFormat(v) == IF v.t = "str" THEN v.s ELSE PyRepr(v)

(***************************************************************************)
(* json.loads, for the JSON the model's texts use: objects, arrays,        *)
(* strings with the escapes \" \\ \/ \n \t, integers, true, false, null.   *)
(* Any other text is a JSONDecodeError, as is a control character inside a *)
(* string and data after the value.                                        *)
(***************************************************************************)
BadParse == [ok |-> FALSE, v |-> PyNone, next |-> 0]

Parsed(v, next) == [ok |-> TRUE, v |-> v, next |-> next]

Digits == {"0", "1", "2", "3", "4", "5", "6", "7", "8", "9"}

DigitRunEnd(s, i) ==
    LET stops == {k \in i..Len(s) : At(s, k) \notin Digits}
    IN  IF stops = {} THEN Len(s) + 1 ELSE Min(stops)

Unescape(c) ==
    CASE c = "n" -> "\n"
      [] c = "t" -> "\t"
      [] OTHER -> c

\* whether the character at k of the JSON string that starts at i follows an
\* odd run of backslashes
Escaped(s, k, i) ==
    IF k = i \/ At(s, k - 1) # "\\" THEN FALSE
    ELSE LET others == {j \in i..(k - 1) : At(s, j) # "\\"}
         IN  ((k - 1) - (IF others = {} THEN i - 1 ELSE Max(others))) % 2 = 1

\* the characters of a JSON string from position i, up to its closing quote
ScanString(s, i, acc) ==
    LET closes == {k \in i..Len(s) : At(s, k) = "\"" /\ ~Escaped(s, k, i)}
        q == Min(closes)
        bad == {k \in i..(q - 1) :
                   \/ ~Escaped(s, k, i) /\ At(s, k) \in {"\n", "\t"}
                   \/ Escaped(s, k, i) /\ At(s, k) \notin {"\"", "\\", "/", "n", "t"}}
        decoded == [k \in i..(q - 1) |->
                       IF Escaped(s, k, i) THEN Unescape(At(s, k))
                       ELSE IF At(s, k) = "\\" THEN "" ELSE At(s, k)]
    IN  IF closes = {} THEN BadParse
        ELSE IF bad # {} THEN BadParse
        ELSE Parsed(PyStr(acc \o ConcatRange(decoded, i, q - 1)), q + 1)

RECURSIVE ParseValue(_, _)
RECURSIVE ParseItems(_, _, _)
RECURSIVE ParseMembers(_, _, _, _)

\* the elements of an array after "[" or ",": i is at the next element
ParseItems(s, i, acc) ==
    LET e == ParseValue(s, i)
    IN  IF ~e.ok THEN BadParse
        ELSE LET j == SkipSpace(s, e.next)
             IN  CASE StartsWithAt(s, j, ",") ->
                        ParseItems(s, SkipSpace(s, j + 1), Append(acc, e.v))
                   [] StartsWithAt(s, j, "]") -> Parsed(PyList(Append(acc, e.v)), j + 1)
                   [] OTHER -> BadParse

\* the members of an object after "{" or ",": i is at the next key.  A key
\* met again keeps its place and takes the later value.
ParseMembers(s, i, ks, vs) ==
    IF ~StartsWithAt(s, i, "\"") THEN BadParse
    ELSE LET k == ScanString(s, i + 1, "")
             c == IF k.ok THEN SkipSpace(s, k.next) ELSE 0
             e == IF k.ok /\ StartsWithAt(s, c, ":")
                  THEN ParseValue(s, SkipSpace(s, c + 1)) ELSE BadParse
         IN  IF ~e.ok THEN BadParse
             ELSE LET j  == SkipSpace(s, e.next)
                      d  == DictSet([keys |-> ks, val |-> vs], k.v.s, e.v)
                  IN  CASE StartsWithAt(s, j, ",") ->
                             ParseMembers(s, SkipSpace(s, j + 1), d.keys, d.val)
                        [] StartsWithAt(s, j, "}") -> Parsed(PyDict(d.keys, d.val), j + 1)
                        [] OTHER -> BadParse

ParseValue(s, i) ==
    CASE StartsWithAt(s, i, "\"") -> ScanString(s, i + 1, "")
      [] StartsWithAt(s, i, "{") ->
            LET j == SkipSpace(s, i + 1)
            IN  IF StartsWithAt(s, j, "}") THEN Parsed(PyDict(<< >>, << >>), j + 1)
                ELSE ParseMembers(s, j, << >>, << >>)
      [] StartsWithAt(s, i, "[") ->
            LET j == SkipSpace(s, i + 1)
            IN  IF StartsWithAt(s, j, "]") THEN Parsed(PyList(<< >>), j + 1)
                ELSE ParseItems(s, j, << >>)
      [] StartsWithAt(s, i, "null") -> Parsed(PyNone, i + 4)
      [] StartsWithAt(s, i, "true") -> Parsed(PyBool("true"), i + 4)
      [] StartsWithAt(s, i, "false") -> Parsed(PyBool("false"), i + 5)
      [] i <= Len(s) /\ At(s, i) \in Digits ->
            LET j == DigitRunEnd(s, i)
            IN  Parsed(PyInt(SubSeq(s, i, j - 1)), j)
      [] OTHER -> BadParse

\* json.loads(s) of a str: ok is FALSE for a JSONDecodeError
json_loads(s) ==
    With(ParseValue(s, SkipSpace(s, 1)), LAMBDA r :
        IF r.ok /\ SkipSpace(s, r.next) = Len(s) + 1 THEN r ELSE BadParse)

(***************************************************************************)
(* _parse_json_content                                                     *)
(***************************************************************************)
\* how a call ends: it returns a value or an exception leaves it
Return(v) == [kind |-> "return", v |-> v, exc |-> ""]

Raise(exc) == [kind |-> "raise", v |-> PyNone, exc |-> exc]

\* key in x, for a str key: "T", "F", or "TypeError" when x is no container
Contains(key, x) ==
    CASE x.t = "dict" -> IF key \in Range(x.keys) THEN "T" ELSE "F"
      [] x.t = "list" -> IF \E n \in 1..Len(x.items) : x.items[n] = PyStr(key)
                         THEN "T" ELSE "F"
      [] x.t = "str"  -> IF FindFrom(x.s, key, 1) # 0 THEN "T" ELSE "F"
      [] OTHER -> "TypeError"

\* x[key], for a str key that `key in x` found: only a dict can be indexed by it
Subscript(x, key) ==
    IF x.t = "dict" THEN Return(Item(x, key)) ELSE Raise("TypeError")

\* the elements `for msg in x` visits: ok is FALSE when x is not iterable
Iterate(x) ==
    CASE x.t = "list" -> [ok |-> TRUE, elems |-> x.items]
      [] x.t = "dict" -> [ok |-> TRUE, elems |-> [n \in 1..Len(x.keys) |-> PyStr(x.keys[n])]]
      [] x.t = "str"  -> [ok |-> TRUE, elems |-> [n \in 1..Len(x.s) |-> PyStr(At(x.s, n))]]
      [] OTHER -> [ok |-> FALSE, elems |-> << >>]

RECURSIVE JoinFrom(_, _, _)
JoinFrom(sep, parts, n) ==
    IF n > Len(parts) THEN ""
    ELSE (IF n = 1 THEN "" ELSE sep) \o parts[n].s \o JoinFrom(sep, parts, n + 1)

\* sep.join(parts): a TypeError unless every part is a str
Join(sep, parts) ==
    IF \A n \in 1..Len(parts) : IsStr(parts[n])
    THEN Return(PyStr(JoinFrom(sep, parts, 1)))
    ELSE Raise("TypeError")

RECURSIVE MessagesLoop(_, _, _)
\* for msg in parsed['messages']: if 'content' in msg: all_content.append(..)
\* and then the join
MessagesLoop(elems, n, all_content) ==
    IF n > Len(elems) THEN Join("\n\n", all_content)
    ELSE LET msg == elems[n]
             has == Contains("content", msg)
         IN  CASE has = "TypeError" -> Raise("TypeError")
               [] has = "F" -> MessagesLoop(elems, n + 1, all_content)
               [] OTHER ->
                    LET c == Subscript(msg, "content")
                    IN  IF c.kind = "raise" THEN c
                        ELSE MessagesLoop(elems, n + 1, Append(all_content, c.v))

\* `name in choice and 'content' in choice[name]`: "T", "F" or the exception
NestedContent(choice, name) ==
    LET has == Contains(name, choice)
    IN  IF has # "T" THEN has
        ELSE LET inner == Subscript(choice, name)
             IN  IF inner.kind = "raise" THEN inner.exc
                 ELSE Contains("content", inner.v)

\* choice[name]['content'], once NestedContent found it
NestedValue(choice, name) == Subscript(Item(choice, name), "content")

\* the body of the try block, for the decoded value
ParsedBranch(parsed, content, is_request) ==
    CASE parsed.t = "dict" /\ is_request ->
            IF ~HasKey(parsed, "messages") THEN Return(content)
            ELSE LET it == Iterate(Item(parsed, "messages"))
                 IN  IF it.ok THEN MessagesLoop(it.elems, 1, << >>)
                     ELSE Raise("TypeError")
      [] parsed.t = "dict" /\ ~is_request ->
            IF ~HasKey(parsed, "choices") THEN Return(content)
            ELSE LET choices == Item(parsed, "choices")
                     it == Iterate(choices)
                 IN  CASE ~it.ok -> Raise("TypeError")
                       [] Len(it.elems) = 0 -> Return(content)
                       [] choices.t = "dict" -> Raise("KeyError")
                       [] OTHER ->
                            LET choice == it.elems[1]
                                delta == NestedContent(choice, "delta")
                                message == NestedContent(choice, "message")
                            IN  CASE delta = "T" -> NestedValue(choice, "delta")
                                  [] delta # "F" -> Raise(delta)
                                  [] message = "T" -> NestedValue(choice, "message")
                                  [] message # "F" -> Raise(message)
                                  [] OTHER -> Return(content)
      [] parsed.t = "str" -> Return(parsed)
      [] OTHER -> Return(content)

\* the exceptions the except clause names
Caught == {"JSONDecodeError", "KeyError", "IndexError"}

\* _parse_json_content(content, is_request): json.loads takes a str only
ParseJsonContent(content, is_request) ==
    With(IF ~IsStr(content) THEN Raise("TypeError")
         ELSE With(json_loads(content.s), LAMBDA r :
                  IF ~r.ok THEN Raise("JSONDecodeError")
                  ELSE ParsedBranch(r.v, content, is_request)),
         LAMBDA body :
             IF body.kind = "raise" /\ body.exc \in Caught THEN Return(content) ELSE body)

(***************************************************************************)
(* The extractor passes                                                    *)
(***************************************************************************)
\* the key the heredoc loop stores a match under
HeredocKey(d, match) == UniquePath(match.g1, d)

\* the key the structured loop stores a match under: the path is stripped
StructuredKey(d, match) == UniquePath(Strip(match.g1), d)

\* files[filepath] = content
StoreMatch(d, filepath, match) == DictSet(d, filepath, match.g2)

RECURSIVE HeredocLoop(_, _, _)
HeredocLoop(ms, n, d) ==
    IF n > Len(ms) THEN d
    ELSE HeredocLoop(ms, n + 1, StoreMatch(d, HeredocKey(d, ms[n]), ms[n]))

RECURSIVE StructuredLoop(_, _, _)
StructuredLoop(ms, n, d) ==
    IF n > Len(ms) THEN d
    ELSE StructuredLoop(ms, n + 1, StoreMatch(d, StructuredKey(d, ms[n]), ms[n]))

\* _extract_files_from_text(text), as a function of the text
ExtractFilesFromText(s) == HeredocLoop(HeredocFindIter(s), 1, EmptyDict)

\* _extract_structured_files(text), as a function of the text
ExtractStructuredFiles(s) == StructuredLoop(StructuredFindIter(s), 1, EmptyDict)

\* files = {}; matches = re.finditer(pattern, text, re.DOTALL)
HeredocScan ==
    /\ pc = "scan"
    /\ source = "heredoc"
    /\ matches' = HeredocFindIter(text)
    /\ pc' = "loop"
    /\ UNCHANGED <<source, text, mi, files, extracted, normVars, reportVars, mainVars>>

\* files = {}; matches = re.finditer(pattern, text, re.DOTALL)
StructuredScan ==
    /\ pc = "scan"
    /\ source = "structured"
    /\ matches' = StructuredFindIter(text)
    /\ pc' = "loop"
    /\ UNCHANGED <<source, text, mi, files, extracted, normVars, reportVars, mainVars>>

\* _extract_files_from_text: one iteration of the for loop
HeredocLoopStep ==
    /\ pc = "loop"
    /\ source = "heredoc"
    /\ mi < Len(matches)
    /\ LET match == matches[mi + 1]
           filepath == HeredocKey(files, match)
       IN  /\ files' = StoreMatch(files, filepath, match)
           /\ extracted' = Append(extracted, filepath)
    /\ mi' = mi + 1
    /\ UNCHANGED <<pc, source, text, matches, normVars, reportVars, mainVars>>

\* _extract_structured_files: one iteration of the for loop
StructuredLoopStep ==
    /\ pc = "loop"
    /\ source = "structured"
    /\ mi < Len(matches)
    /\ LET match == matches[mi + 1]
           filepath == StructuredKey(files, match)
       IN  /\ files' = StoreMatch(files, filepath, match)
           /\ extracted' = Append(extracted, filepath)
    /\ mi' = mi + 1
    /\ UNCHANGED <<pc, source, text, matches, normVars, reportVars, mainVars>>

\* return files
ReturnFiles ==
    /\ pc = "loop"
    /\ mi = Len(matches)
    /\ pc' = "returned"
    /\ UNCHANGED <<passVars, normVars, reportVars, mainVars>>

(***************************************************************************)
(* sorted(): str compares by code point                                    *)
(***************************************************************************)
\* the characters of the model's texts in code point order ("~" stands for
\* the backtick and has its place)
CodePoints ==
    "\t\n !\"#$%&'()*+,-./0123456789:;<=>?@ABCDEFGHIJKLMNOPQRSTUVWXYZ[\\]^_~abcdefghijklmnopqrstuvwxyz{|}"

Ord(c) == FindFrom(CodePoints, c, 1)

\* a < b for two str
StrLess(a, b) ==
    LET diff == {k \in 1..Len(a) : k > Len(b) \/ At(a, k) # At(b, k)}
    IN  IF diff = {} THEN Len(a) < Len(b)
        ELSE Min(diff) <= Len(b) /\ Ord(At(a, Min(diff))) < Ord(At(b, Min(diff)))

RECURSIVE SortedSet(_)
\* sorted(S) for a set of str
SortedSet(S) ==
    IF S = {} THEN << >>
    ELSE LET least == CHOOSE x \in S : \A y \in S \ {x} : StrLess(x, y)
         IN  <<least>> \o SortedSet(S \ {least})

RECURSIVE SortedSeq(_)
\* sorted(list) for a list of str: equal elements stay
SortedSeq(seq) ==
    IF Len(seq) = 0 THEN << >>
    ELSE LET n == CHOOSE i \in 1..Len(seq) : \A j \in 1..Len(seq) : ~StrLess(seq[j], seq[i])
         IN  <<seq[n]>> \o SortedSeq([k \in 1..(Len(seq) - 1) |->
                                         IF k < n THEN seq[k] ELSE seq[k + 1]])

(***************************************************************************)
(* pathlib.Path on POSIX                                                   *)
(***************************************************************************)
RECURSIVE SplitOn(_, _, _)
\* s.split(sep) from position i on, for a one-character sep
SplitOn(s, sep, i) ==
    With(FindFrom(s, sep, i), LAMBDA e :
        IF e = 0 THEN <<SubSeq(s, i, Len(s))>>
        ELSE <<SubSeq(s, i, e - 1)>> \o SplitOn(s, sep, e + 1))

SelectSeqOf(items, Keep(_)) ==
    With(items, LAMBDA seq :
        LET F[n \in 0..Len(seq)] ==
                IF n = 0 THEN << >>
                ELSE IF Keep(seq[n]) THEN Append(F[n - 1], seq[n]) ELSE F[n - 1]
        IN  F[Len(seq)])

\* the root of a path: "/" for a leading slash, "//" for exactly two
PathRoot(p) ==
    IF StartsWithAt(p, 1, "//") /\ ~StartsWithAt(p, 1, "///") THEN "//"
    ELSE IF StartsWithAt(p, 1, "/") THEN "/"
    ELSE ""

NamedComponent(c) == c # "" /\ c # "."

\* Path(p).parts: the root, then the components that are neither empty nor "."
Parts(p) ==
    LET names == SelectSeqOf(SplitOn(p, "/", 1), NamedComponent)
    IN  IF PathRoot(p) = "" THEN names ELSE <<PathRoot(p)>> \o names

IsRoot(c) == c = "/" \/ c = "//"

\* str(Path(*parts))
PathStr(parts) ==
    IF Len(parts) = 0 THEN "."
    ELSE IF IsRoot(parts[1]) THEN parts[1] \o JoinStr("/", parts, 2)
    ELSE JoinStr("/", parts, 1)

\* base / other: an absolute other replaces base
PathJoin(base, other) ==
    IF StartsWithAt(other, 1, "/") THEN Parts(other) ELSE Parts(base) \o Parts(other)

\* Path(p).name
PathName(p) ==
    LET parts == Parts(p)
    IN  IF Len(parts) = 0 \/ IsRoot(parts[Len(parts)]) THEN "" ELSE parts[Len(parts)]

\* Path(*parts).parent: the root is its own parent
Parent(parts) ==
    IF Len(parts) = 1 /\ IsRoot(parts[1]) THEN parts ELSE SubSeq(parts, 1, Len(parts) - 1)

\* Path(f'debug-tools/extracted/{action_key}_{chat_id}'), as a str
OutputDir(action_key, chat_id) ==
    PathStr(Parts("debug-tools/extracted/" \o PyFormat(action_key) \o "_" \o PyFormat(chat_id)))

(***************************************************************************)
(* _build_actual_tree and _generate_report                                 *)
(***************************************************************************)
RuleWidth == 80

\* "=" * 80
Rule == Concat([n \in 1..RuleWidth |-> "="], 1)

\* a TLA+ string holds ASCII only: the model writes these for the warning
\* sign, the check mark and the branch glyph of the source
WarningSign == "(!)"

CheckMark == "(v)"

Branch == "+--"

\* f"{n:,}"
RECURSIVE WithCommas(_)
WithCommas(n) ==
    IF n < 1000 THEN IntToStr(n)
    ELSE WithCommas(n \div 1000) \o ","
            \o Digit((n % 1000) \div 100) \o Digit((n % 100) \div 10) \o Digit(n % 10)

\* the directory a path is listed under: "." for a path of one part
TreeDirectory(filepath) ==
    IF Len(Parts(filepath)) = 1 THEN "." ELSE PathStr(Parent(Parts(filepath)))

\* the name a path is listed by: the path itself under ".", else its last part
TreeFilename(filepath) ==
    IF Len(Parts(filepath)) = 1 THEN filepath ELSE Parts(filepath)[Len(Parts(filepath))]

\* _build_actual_tree(files): parts[-1] of a path without parts is an IndexError
BuildActualTree(d) ==
    IF Len(d.keys) = 0 THEN Return(PyStr("No files extracted"))
    ELSE IF \E k \in KeySet(d) : Len(Parts(k)) = 0 THEN Raise("IndexError")
    ELSE LET keys == SortedSet(KeySet(d))
             dirs == SortedSet({TreeDirectory(k) : k \in KeySet(d)})
             inDir(dir) == SelectSeqOf(keys, LAMBDA k : TreeDirectory(k) = dir)
             names(dir) == With(inDir(dir), LAMBDA found :
                               With([n \in 1..Len(found) |-> TreeFilename(found[n])],
                                    SortedSeq))
             block(dir) ==
                 With(names(dir), LAMBDA sorted :
                     (IF dir # "." THEN <<dir \o "/">> ELSE << >>)
                     \o [n \in 1..Len(sorted) |->
                            IF dir = "." THEN "  " \o sorted[n]
                            ELSE "  " \o Branch \o " " \o sorted[n]])
             F[n \in 0..Len(dirs)] ==
                 IF n = 0 THEN << >> ELSE F[n - 1] \o block(dirs[n])
         IN  With(F[Len(dirs)], LAMBDA lines : Return(PyStr(JoinStr("\n", lines, 1))))

\* the overlap taken as the union of the two key sets
CommonFilesUnion(req, resp) == KeySet(req) \cup KeySet(resp)

\* common_files = set(request_files.keys()) & set(response_files.keys())
CommonFiles(req, resp) == KeySet(req) \cap KeySet(resp)

\* the lines of one side: its count, its sorted list and its tree, or the notice
SideLines(d, total, tree_title, none) ==
    IF Len(d.keys) = 0 THEN <<none>>
    ELSE LET keys == SortedSet(KeySet(d))
         IN  <<total \o IntToStr(Len(d.keys)), "", "### File List:">>
             \o [n \in 1..Len(keys) |->
                    "  - " \o keys[n] \o " (" \o WithCommas(Len(Get(d, keys[n]))) \o " bytes)"]
             \o <<"", tree_title, BuildActualTree(d).v.s>>

\* _generate_report(request_files, response_files, serialized_tree)
GenerateReport(self, req, resp, tree) ==
    IF \E k \in KeySet(req) \cup KeySet(resp) : Len(Parts(k)) = 0
    THEN Raise("IndexError")
    ELSE LET common == SortedSet(CommonFiles(req, resp))
             lines ==
                <<Rule, "FILE EXTRACTION REPORT", Rule, "",
                  "## Metadata",
                  "  Chat ID:     " \o PyFormat(self.chat_id),
                  "  Action Key:  " \o PyFormat(self.action_key),
                  "  Log File:    " \o PathName(self.log_path),
                  "  Output Dir:  " \o self.output_dir,
                  "", Rule, "## REQUEST FILES (Serialized Input)", Rule, "">>
                \o SideLines(req, "Total files extracted from request: ",
                             "### Actual File Tree (from extracted files):",
                             "No files found in request")
                \o <<"", Rule, "## RESPONSE FILES (AI Generated)", Rule, "">>
                \o SideLines(resp, "Total files generated in response: ",
                             "### Actual File Tree (from generated files):",
                             "No files found in response")
                \o (IF ~tree.isNone /\ tree.s # ""
                    THEN <<"", Rule, "## SERIALIZED FILE TREE (from request metadata)",
                           Rule, "", tree.s>>
                    ELSE << >>)
                \o <<"", Rule, "## COMPARISON", Rule, "",
                     "Request files:  " \o IntToStr(Len(req.keys)),
                     "Response files: " \o IntToStr(Len(resp.keys)),
                     "Total files:    " \o IntToStr(Len(req.keys) + Len(resp.keys))>>
                \o (IF common # << >>
                    THEN <<"", WarningSign \o "  WARNING: " \o IntToStr(Len(common))
                                 \o " files appear in both request and response:">>
                         \o [n \in 1..Len(common) |-> "  - " \o common[n]]
                    ELSE << >>)
                \o <<"", Rule, "## SUMMARY", Rule, "",
                     CheckMark \o " Extraction completed successfully",
                     CheckMark \o " Files saved to: " \o self.output_dir,
                     CheckMark \o " Report saved to: " \o self.output_dir \o "/REPORT.md",
                     "">>
         IN  With(lines, LAMBDA all : Return(PyStr(JoinStr("\n", all, 1))))

(***************************************************************************)
(* The disk: the set of directories and files the tool made, each under    *)
(* its path from the working directory with ".." resolved                  *)
(***************************************************************************)
RECURSIVE ResolveFrom(_, _, _)
\* the path the kernel reaches by parts[n:] from the resolved prefix acc
ResolveFrom(parts, n, resolved) ==
    With(resolved, LAMBDA acc :
        IF n > Len(parts) THEN acc
        ELSE IF parts[n] # ".." THEN ResolveFrom(parts, n + 1, Append(acc, parts[n]))
        ELSE IF Len(acc) > 0 /\ IsRoot(acc[Len(acc)]) THEN ResolveFrom(parts, n + 1, acc)
        ELSE IF Len(acc) > 0 /\ acc[Len(acc)] # ".."
             THEN ResolveFrom(parts, n + 1, SubSeq(acc, 1, Len(acc) - 1))
        ELSE ResolveFrom(parts, n + 1, Append(acc, "..")))

Resolve(path) == With(path, LAMBDA parts : ResolveFrom(parts, 1, << >>))

IsFile(disk, path) ==
    With(Resolve(path), LAMBDA at : \E e \in disk : e.kind = "file" /\ e.path = at)

\* the working directory and the directories above it are there from the start
IsDir(disk, path) ==
    With(Resolve(path), LAMBDA at :
        \/ \A n \in 1..Len(at) : at[n] = ".."
        \/ Len(at) = 1 /\ IsRoot(at[1])
        \/ \E e \in disk : e.kind = "dir" /\ e.path = at)

Done(disk) == [fs |-> disk, exc |-> ""]

Failed(disk, name) == [fs |-> disk, exc |-> name]

RECURSIVE MkdirFrom(_, _, _)
\* Path(parts).mkdir(parents=True, exist_ok=True): every prefix becomes a
\* directory, unless a file stands there
MkdirFrom(before, parts, n) ==
    With(before, LAMBDA disk :
        IF n > Len(parts) THEN Done(disk)
        ELSE IF IsFile(disk, SubSeq(parts, 1, n))
        THEN Failed(disk, IF n = Len(parts) THEN "FileExistsError"
                          ELSE "NotADirectoryError")
        ELSE MkdirFrom(IF IsDir(disk, SubSeq(parts, 1, n)) THEN disk
                       ELSE disk \cup {[path |-> Resolve(SubSeq(parts, 1, n)),
                                        kind |-> "dir", data |-> ""]},
                       parts, n + 1))

Mkdir(disk, path) == With(path, LAMBDA parts : MkdirFrom(disk, parts, 1))

\* with open(Path(parts), 'w') as f: f.write(data)
WriteFile(disk, path, data) ==
    IF IsDir(disk, path) THEN Failed(disk, "IsADirectoryError")
    ELSE With(Resolve(path), LAMBDA at :
             Done({e \in disk : e.path # at}
                  \cup {[path |-> at, kind |-> "file", data |-> data]}))

\* output_path.parent.mkdir(parents=True, exist_ok=True), then the write
WriteUnder(disk, path, data) ==
    With(path, LAMBDA output_path :
        With(Mkdir(disk, Parent(output_path)), LAMBDA made :
            IF made.exc # "" THEN made ELSE WriteFile(made.fs, output_path, data)))

RECURSIVE SaveLoop(_, _, _, _)
\* for filepath, content in files.items(): make the parent, write the file
SaveLoop(disk, base_dir, d, n) ==
    IF n > Len(d.keys) THEN Done(disk)
    ELSE With(WriteUnder(disk, PathJoin(PathStr(base_dir), d.keys[n]), d.val[n]),
              LAMBDA wrote : IF wrote.exc # "" THEN wrote
                             ELSE SaveLoop(wrote.fs, base_dir, d, n + 1))

\* _save_files(files, subdirectory)
SaveFiles(disk, output_dir, d, subdirectory) ==
    IF Len(d.keys) = 0 THEN Done(disk)
    ELSE With(IF subdirectory # "" THEN PathJoin(output_dir, subdirectory)
              ELSE Parts(output_dir),
              LAMBDA base_dir :
                  With(Mkdir(disk, base_dir), LAMBDA made :
                      IF made.exc # "" THEN made ELSE SaveLoop(made.fs, base_dir, d, 1)))

(***************************************************************************)
(* FileExtractor.__init__ and extract_all, step by step                    *)
(***************************************************************************)
\* d.get(key, default) of a dict
DictGetOr(v, key, default) == IF HasKey(v, key) THEN Item(v, key) ELSE default

\* the extractor before any log file was loaded
NoExtractor == [log_path |-> "", log_data |-> PyNone, chat_id |-> PyNone,
                action_key |-> PyNone, output_dir |-> ""]

\* __init__(log_path) for a file holding data: the fields, or the exception
\* of json.load or of .get on a value that is no dict
Construct(log_path, data) ==
    With(json_loads(data), LAMBDA loaded :
        IF ~loaded.ok THEN [exc |-> "JSONDecodeError", self |-> NoExtractor]
        ELSE IF loaded.v.t # "dict" THEN [exc |-> "AttributeError", self |-> NoExtractor]
        ELSE With(DictGetOr(loaded.v, "metadata", PyDict(<< >>, << >>)), LAMBDA metadata :
            IF metadata.t # "dict" THEN [exc |-> "AttributeError", self |-> NoExtractor]
            ELSE [exc |-> "",
                  self |-> [log_path |-> log_path, log_data |-> loaded.v,
                            chat_id |-> DictGetOr(metadata, "chatId", PyStr("unknown")),
                            action_key |-> DictGetOr(metadata, "actionKey", PyStr("unknown")),
                            output_dir |-> OutputDir(
                                DictGetOr(metadata, "actionKey", PyStr("unknown")),
                                DictGetOr(metadata, "chatId", PyStr("unknown")))]]))

(***************************************************************************)
(* The log files of the runs, written as the gateway writes them, and what *)
(* each pure step of __init__ and extract_all gives for them.  A step of a *)
(* run looks its result up, so that a result is worked out once, not once  *)
(* for every state and every test of whether a step is enabled.            *)
(***************************************************************************)
\* cat > path << 'EOF'\ncontent\nEOF
HeredocBlock(path, lines) ==
    HeredocOpen \o path \o HeredocMark
        \o Concat([n \in 1..Len(lines) |-> lines[n] \o "\n"], 1) \o "EOF\n"

\* #### filePath\n\n```\npath\n```\n\n#### fileContents\n\n```\ncontent\n```
StructuredBlock(path, lines) ==
    PathMarker \o "\n\n" \o Fence \o "\n" \o path \o "\n" \o Fence \o "\n\n"
        \o ContentsMarker \o "\n\n" \o Fence \o "\n"
        \o Concat([n \in 1..Len(lines) |-> lines[n] \o "\n"], 1) \o Fence \o "\n\n"

\* a character as json.dumps writes it inside a string
JsonEscape(c) ==
    CASE c = "\n" -> "\\n"
      [] c = "\t" -> "\\t"
      [] c = "\"" -> "\\\""
      [] c = "\\" -> "\\\\"
      [] OTHER -> c

JsonString(s) ==
    "\"" \o ConcatRange([k \in 1..Len(s) |-> JsonEscape(At(s, k))], 1, Len(s)) \o "\""

\* a log record: its members, each a key and the JSON text of its value
JsonObject(members) ==
    "{" \o JoinStr(", ", [n \in 1..Len(members) |->
                             JsonString(members[n][1]) \o ": " \o members[n][2]], 1) \o "}"

LogFile(name, data) == [name |-> name, exists |-> TRUE, data |-> data]

\* a heredoc file in the request, a structured file in the response, and
\* tree tags in the response only
EndToEndLog ==
    LogFile("logs/e2e.json", JsonObject(<<
        <<"metadata", JsonObject(<< <<"chatId", JsonString("c1")>>,
                                    <<"actionKey", JsonString("k")>> >>)>>,
        <<"request_head", JsonString(HeredocBlock("main.py", <<"print(1)">>))>>,
        <<"response_head", JsonString(StructuredBlock("out.py", <<"x = 1">>)
                                      \o "<FILE_TREE>resp</FILE_TREE>")>> >>))

\* envelopes on both sides: a.py twice as heredoc and once structured in the
\* request, a tree in the request, a.py as heredoc in the response
MergeLog ==
    LogFile("logs/merge.json", JsonObject(<<
        <<"metadata", JsonObject(<< <<"chatId", JsonString("c2")>> >>)>>,
        <<"request_head", JsonString(JsonObject(<<
            <<"messages", "[" \o JsonObject(<< <<"content", JsonString(
                                  HeredocBlock("a.py", <<"H1">>)
                                  \o HeredocBlock("a.py", <<"H2">>))>> >>)
                          \o ", " \o JsonObject(<< <<"content", JsonString(
                                  StructuredBlock("a.py", <<"S1">>)
                                  \o "<FILE_TREE>\nsrc/\n</FILE_TREE>")>> >>)
                          \o "]">> >>))>>,
        <<"response_head", JsonString(JsonObject(<<
            <<"choices", "[" \o JsonObject(<< <<"delta", JsonObject(<<
                                  <<"content", JsonString(HeredocBlock("a.py", <<"R">>))>>
                              >>)>> >>) \o "]">> >>))>> >>))

\* tree tags around white space in the request, and a file below the path
\* that EndToEndLog writes as a file, in the same output directory
EmptyTreeLog ==
    LogFile("logs/emptytree.json", JsonObject(<<
        <<"metadata", JsonObject(<< <<"chatId", JsonString("c1")>>,
                                    <<"actionKey", JsonString("k")>> >>)>>,
        <<"request_head", JsonString("<FILE_TREE> </FILE_TREE>"
                                     \o HeredocBlock("main.py/x", <<"y">>))>> >>))

\* no metadata; a path with .. in the request, an absolute path in the response
EscapeLog ==
    LogFile("logs/escape.json", JsonObject(<<
        <<"request_head", JsonString(HeredocBlock("../../x", <<"p">>))>>,
        <<"response_head", JsonString(HeredocBlock("/tmp/x", <<"q">>))>> >>))

\* a response envelope whose choices is a number
BadResponseLog ==
    LogFile("logs/badresp.json", JsonObject(<<
        <<"request_head", JsonString(HeredocBlock("b.txt", <<"B">>))>>,
        <<"response_head", JsonString("{\"choices\": 5}")>> >>))

\* a response envelope whose content is null
NullContentLog ==
    LogFile("logs/nullcontent.json", JsonObject(<<
        <<"response_head", JsonString("{\"choices\": [{\"delta\": {\"content\": null}}]}")>>
        >>))

MissingLog == [name |-> "logs/missing.json", exists |-> FALSE, data |-> ""]

BrokenLog == LogFile("logs/broken.json", "not json")

LogPool == {EndToEndLog, MergeLog, EmptyTreeLog, EscapeLog, BadResponseLog,
            NullContentLog, MissingLog, BrokenLog}

\* the pairs of each x of Domain with F(x), worked out once for all runs
Tabulate(Domain, F(_)) == {<<x, F(x)>> : x \in Domain}

\* the F(x) that a table made by Tabulate holds for x
Lookup(table, x) == (CHOOSE entry \in table : entry[1] = x)[2]

\* self.log_data.get(key, '') of the extractors that construct made
HeadsOf(construct, key) ==
    {DictGetOr(entry[2].self.log_data, key, PyStr("")) :
        entry \in {made \in construct : made[2].exc = ""}}

\* the texts the normalizer hands to the extractors
SideTexts(normalize) ==
    {entry[2].v.s : entry \in {o \in normalize : o[2].kind = "return" /\ IsStr(o[2].v)}}

\* what self._parse_json_content gave for one head of an extractor
NormalizedHead(normalize, self, key, is_request) ==
    Lookup(normalize, <<DictGetOr(self.log_data, key, PyStr("")), is_request>>).v

\* the mapping extract_all builds from one side's text
MergedFiles(heredoc, structured, side_text) ==
    DictUpdate(Lookup(heredoc, side_text), Lookup(structured, side_text))

\* the arguments of the calls self._generate_report(request_files,
\* response_files, serialized_tree) that the log files of the pool lead to
ReportCalls(construct, normalize, heredoc, structured, tree) ==
    {<<run[1], MergedFiles(heredoc, structured, run[2].s),
       MergedFiles(heredoc, structured, run[3].s), Lookup(tree, run[2].s)>> :
        run \in {heads \in {<<made[2].self,
                              NormalizedHead(normalize, made[2].self, "request_head", TRUE),
                              NormalizedHead(normalize, made[2].self, "response_head", FALSE)>> :
                               made \in {entry \in construct : entry[2].exc = ""}} :
                    IsStr(heads[2]) /\ IsStr(heads[3])}}

\* the results of the pure steps for the log files of the pool: of
\* FileExtractor(log_file), of _parse_json_content on the heads, of the two
\* extractors and the tree locator on the texts, and of _generate_report
PoolResults ==
    With(Tabulate({f \in LogPool : f.exists}, LAMBDA f : Construct(f.name, f.data)),
         LAMBDA construct :
    With(Tabulate((HeadsOf(construct, "request_head") \X {TRUE})
                      \cup (HeadsOf(construct, "response_head") \X {FALSE}),
                  LAMBDA call : ParseJsonContent(call[1], call[2])),
         LAMBDA normalize :
    With(SideTexts(normalize), LAMBDA side_texts :
    With(Tabulate(side_texts, ExtractFilesFromText), LAMBDA heredoc :
    With(Tabulate(side_texts, ExtractStructuredFiles), LAMBDA structured :
    With(Tabulate(side_texts, ExtractFileTree), LAMBDA tree :
        [construct |-> construct, normalize |-> normalize, heredoc |-> heredoc,
         structured |-> structured, tree |-> tree,
         report |-> Tabulate(ReportCalls(construct, normalize, heredoc, structured, tree),
                             LAMBDA call : GenerateReport(call[1], call[2], call[3],
                                                          call[4]))]))))))

\* an exception leaves extract_all for the handler of main
RaiseToMain(name) == pc' = "except" /\ raised' = name

\* request_head = self._parse_json_content(self.log_data.get('request_head', ''), True)
NormalizeRequest ==
    /\ pc = "normalize_request"
    /\ \E o \in {Lookup(memo.normalize,
                          <<DictGetOr(extractor.log_data, "request_head", PyStr("")), TRUE>>)} :
           IF o.kind = "raise"
           THEN RaiseToMain(o.exc) /\ UNCHANGED request_head
           ELSE pc' = "heredoc_request" /\ request_head' = o.v /\ UNCHANGED raised
    /\ UNCHANGED <<passVars, normVars, memo, reportVars, log_files, fi, total_files, stdout,
                   extractor, response_head, structured_files, structured_response, fs>>

\* request_files = self._extract_files_from_text(request_head, 'REQUEST');
\* re.finditer takes a str only
HeredocRequest ==
    /\ pc = "heredoc_request"
    /\ IF ~IsStr(request_head)
       THEN RaiseToMain("TypeError") /\ UNCHANGED request_files
       ELSE /\ pc' = "structured_request"
            /\ request_files' = Lookup(memo.heredoc, request_head.s)
            /\ UNCHANGED raised
    /\ UNCHANGED <<passVars, normVars, memo, serialized_tree, response_files, report, log_files,
                   fi, total_files, stdout, extractor, request_head, response_head,
                   structured_files, structured_response, fs>>

\* structured_files = self._extract_structured_files(request_head, 'REQUEST')
StructuredRequest ==
    /\ pc = "structured_request"
    /\ structured_files' = Lookup(memo.structured, request_head.s)
    /\ pc' = "update_request"
    /\ UNCHANGED <<passVars, normVars, memo, reportVars, log_files, fi, total_files, stdout,
                   extractor, request_head, response_head, structured_response, fs, raised>>

\* request_files.update(structured_files)
UpdateRequest ==
    /\ pc = "update_request"
    /\ request_files' = DictUpdate(request_files, structured_files)
    /\ pc' = "locate_tree"
    /\ UNCHANGED <<passVars, normVars, serialized_tree, response_files, report, mainVars>>

\* serialized_tree = self._extract_file_tree_from_text(request_head)
LocateTree ==
    /\ pc = "locate_tree"
    /\ serialized_tree' = Lookup(memo.tree, request_head.s)
    /\ pc' = "normalize_response"
    /\ UNCHANGED <<passVars, normVars, request_files, response_files, report, mainVars>>

\* response_head = self._parse_json_content(self.log_data.get('response_head', ''), False)
NormalizeResponse ==
    /\ pc = "normalize_response"
    /\ \E o \in {Lookup(memo.normalize,
                          <<DictGetOr(extractor.log_data, "response_head", PyStr("")), FALSE>>)} :
           IF o.kind = "raise"
           THEN RaiseToMain(o.exc) /\ UNCHANGED response_head
           ELSE pc' = "heredoc_response" /\ response_head' = o.v /\ UNCHANGED raised
    /\ UNCHANGED <<passVars, normVars, memo, reportVars, log_files, fi, total_files, stdout,
                   extractor, request_head, structured_files, structured_response, fs>>

\* response_files = self._extract_files_from_text(response_head, 'RESPONSE')
HeredocResponse ==
    /\ pc = "heredoc_response"
    /\ IF ~IsStr(response_head)
       THEN RaiseToMain("TypeError") /\ UNCHANGED response_files
       ELSE /\ pc' = "structured_response"
            /\ response_files' = Lookup(memo.heredoc, response_head.s)
            /\ UNCHANGED raised
    /\ UNCHANGED <<passVars, normVars, memo, serialized_tree, request_files, report, log_files,
                   fi, total_files, stdout, extractor, request_head, response_head,
                   structured_files, structured_response, fs>>

\* structured_response = self._extract_structured_files(response_head, 'RESPONSE')
StructuredResponse ==
    /\ pc = "structured_response"
    /\ structured_response' = Lookup(memo.structured, response_head.s)
    /\ pc' = "update_response"
    /\ UNCHANGED <<passVars, normVars, memo, reportVars, log_files, fi, total_files, stdout,
                   extractor, request_head, response_head, structured_files, fs, raised>>

\* response_files.update(structured_response)
UpdateResponse ==
    /\ pc = "update_response"
    /\ response_files' = DictUpdate(response_files, structured_response)
    /\ pc' = "save_request"
    /\ UNCHANGED <<passVars, normVars, serialized_tree, request_files, report, mainVars>>

\* if request_files: self._save_files(request_files, 'request')
SaveRequest ==
    /\ pc = "save_request"
    /\ \E saved \in {SaveFiles(fs, extractor.output_dir, request_files, "request")} :
           /\ fs' = saved.fs
           /\ IF saved.exc # "" THEN RaiseToMain(saved.exc)
              ELSE pc' = "save_response" /\ UNCHANGED raised
    /\ UNCHANGED <<passVars, normVars, memo, reportVars, log_files, fi, total_files, stdout,
                   extractor, request_head, response_head, structured_files,
                   structured_response>>

\* if response_files: self._save_files(response_files, 'response')
SaveResponse ==
    /\ pc = "save_response"
    /\ \E saved \in {SaveFiles(fs, extractor.output_dir, response_files, "response")} :
           /\ fs' = saved.fs
           /\ IF saved.exc # "" THEN RaiseToMain(saved.exc)
              ELSE pc' = "report" /\ UNCHANGED raised
    /\ UNCHANGED <<passVars, normVars, memo, reportVars, log_files, fi, total_files, stdout,
                   extractor, request_head, response_head, structured_files,
                   structured_response>>

\* report = self._generate_report(request_files, response_files, serialized_tree)
GenerateReportStep ==
    /\ pc = "report"
    /\ \E o \in {Lookup(memo.report,
                          <<extractor, request_files, response_files, serialized_tree>>)} :
           IF o.kind = "raise"
           THEN RaiseToMain(o.exc) /\ UNCHANGED report
           ELSE pc' = "write_report" /\ report' = o.v.s /\ UNCHANGED raised
    /\ UNCHANGED <<passVars, normVars, memo, serialized_tree, request_files, response_files,
                   log_files, fi, total_files, stdout, extractor, request_head,
                   response_head, structured_files, structured_response, fs>>

\* report_path = self.output_dir / 'REPORT.md'; make its parent; write the report
WriteReport ==
    /\ pc = "write_report"
    /\ \E saved \in {WriteUnder(fs, PathJoin(extractor.output_dir, "REPORT.md"), report)} :
           /\ fs' = saved.fs
           /\ IF saved.exc # "" THEN RaiseToMain(saved.exc)
              ELSE pc' = "return" /\ UNCHANGED raised
    /\ UNCHANGED <<passVars, normVars, memo, reportVars, log_files, fi, total_files, stdout,
                   extractor, request_head, response_head, structured_files,
                   structured_response>>

(***************************************************************************)
(* main: the loop over the log files.  stdout holds, for each log file,    *)
(* the error line or the report extract_all printed, and then the tally;   *)
(* the progress lines are left out.                                        *)
(***************************************************************************)
CrossMark == "(x)"

\* the loop is at a log file that is not on disk: the message, and on
MainMissing ==
    /\ pc = "main"
    /\ fi < Len(log_files)
    /\ ~log_files[fi + 1].exists
    /\ stdout' = Append(stdout, CrossMark \o " Error: File not found: " \o log_files[fi + 1].name)
    /\ fi' = fi + 1
    /\ UNCHANGED <<pc, passVars, normVars, memo, reportVars, log_files, total_files, extractor,
                   request_head, response_head, structured_files, structured_response,
                   fs, raised>>

\* extractor = FileExtractor(log_file): the call of extract_all starts with
\* fresh locals
MainConstruct ==
    /\ pc = "main"
    /\ fi < Len(log_files)
    /\ log_files[fi + 1].exists
    /\ \E made \in {Lookup(memo.construct, log_files[fi + 1])} :
           /\ extractor' = made.self
           /\ IF made.exc # "" THEN RaiseToMain(made.exc)
              ELSE pc' = "normalize_request" /\ UNCHANGED raised
    /\ request_head' = PyNone /\ response_head' = PyNone
    /\ request_files' = EmptyDict /\ response_files' = EmptyDict
    /\ structured_files' = EmptyDict /\ structured_response' = EmptyDict
    /\ serialized_tree' = None /\ report' = ""
    /\ UNCHANGED <<passVars, normVars, memo, log_files, fi, total_files, stdout, fs>>

\* print(report); return len(request_files) + len(response_files);
\* total_files += count
ReturnCount ==
    /\ pc = "return"
    /\ stdout' = Append(stdout, report)
    /\ total_files' = total_files + Len(request_files.keys) + Len(response_files.keys)
    /\ fi' = fi + 1
    /\ pc' = "main"
    /\ UNCHANGED <<passVars, normVars, memo, reportVars, log_files, extractor, request_head,
                   response_head, structured_files, structured_response, fs, raised>>

\* the handler that gives up the whole batch at the first exception
HandleExceptionAbort ==
    /\ pc = "except"
    /\ stdout' = Append(stdout, CrossMark \o " Error processing " \o log_files[fi + 1].name
                                 \o ": " \o raised)
    /\ fi' = Len(log_files)
    /\ raised' = ""
    /\ pc' = "main"
    /\ UNCHANGED <<passVars, normVars, memo, reportVars, log_files, total_files, extractor,
                   request_head, response_head, structured_files, structured_response, fs>>

\* except Exception as e: print the error; the loop goes on
HandleException ==
    /\ pc = "except"
    /\ stdout' = Append(stdout, CrossMark \o " Error processing " \o log_files[fi + 1].name
                                 \o ": " \o raised)
    /\ fi' = fi + 1
    /\ raised' = ""
    /\ pc' = "main"
    /\ UNCHANGED <<passVars, normVars, memo, reportVars, log_files, total_files, extractor,
                   request_head, response_head, structured_files, structured_response, fs>>

\* after the loop: print(f"\nTotal files extracted: {total_files}")
MainFinish ==
    /\ pc = "main"
    /\ fi = Len(log_files)
    /\ stdout' = Append(stdout, "\nTotal files extracted: " \o IntToStr(total_files))
    /\ pc' = "done"
    /\ UNCHANGED <<passVars, normVars, memo, reportVars, log_files, fi, total_files, extractor,
                   request_head, response_head, structured_files, structured_response,
                   fs, raised>>

(***************************************************************************)
(* Values of the variables an operation under study does not use           *)
(***************************************************************************)
NotCalled == [kind |-> "none", v |-> PyNone, exc |-> ""]

IdlePass ==
    /\ source = "" /\ text = "" /\ matches = << >> /\ mi = 0
    /\ files = EmptyDict /\ extracted = << >>

IdleNorm == arg_content = "" /\ arg_is_request = FALSE /\ outcome = NotCalled

IdleReport ==
    /\ serialized_tree = None /\ request_files = EmptyDict
    /\ response_files = EmptyDict /\ report = ""

IdleMain ==
    /\ log_files = << >> /\ fi = 0 /\ total_files = 0 /\ stdout = << >>
    /\ extractor = NoExtractor /\ request_head = PyNone /\ response_head = PyNone
    /\ structured_files = EmptyDict /\ structured_response = EmptyDict
    /\ fs = {} /\ raised = "" /\ memo = << >>

(***************************************************************************)
(* Input texts: blocks in the two formats of the docstrings                *)
(***************************************************************************)
MaxBlocks == 3

\* the sequences over S of length n at most
SeqsUpTo(S, n) == UNION {[1..k -> S] : k \in 0..n}

MaxBodyLines == 2

\* the text of a sequence of blocks of one kind
RenderBlocks(kind, blocks) ==
    Concat([n \in 1..Len(blocks) |->
               IF kind = "heredoc" THEN HeredocBlock(blocks[n].path, blocks[n].lines)
               ELSE StructuredBlock(blocks[n].path, blocks[n].lines)], 1)

\* declared paths: with and without extension, a dot file, and a path that
\* spells the first variant of another
PassPaths == {"a/b.txt", "a/b_v1.txt", "b", ".rc"}

PassBlocks == [path : PassPaths, lines : {<<"A">>, <<"B">>}]

(***************************************************************************)
(* SpecPass: one extractor pass over a text of well-formed blocks          *)
(***************************************************************************)
InitPass ==
    /\ pc = "scan"
    /\ source \in {"heredoc", "structured"}
    /\ \E blocks \in SeqsUpTo(PassBlocks, MaxBlocks) : text = RenderBlocks(source, blocks)
    /\ matches = << >> /\ mi = 0 /\ files = EmptyDict /\ extracted = << >>
    /\ IdleNorm /\ IdleReport /\ IdleMain

NextPass ==
    \/ HeredocScan
    \/ StructuredScan
    \/ HeredocLoopStep
    \/ StructuredLoopStep
    \/ ReturnFiles

SpecPass == InitPass /\ [][NextPass]_vars

\* the path a match declares, as its loop reads it
Declared(n) == IF source = "structured" THEN Strip(matches[n].g1) ELSE matches[n].g1

\* C1: within one extractor pass no insertion overwrites an earlier one: after
\* each insertion the mapping has as many entries as blocks were consumed, all
\* keys are distinct, and each consumed block's content is stored unchanged
\* under the one key the pass gave it.
C1_NoOverwriteInPass ==
    pc \in {"loop", "returned"} =>
        /\ Len(files.keys) = mi
        /\ Len(extracted) = mi
        /\ \A i, j \in 1..Len(files.keys) : i # j => files.keys[i] # files.keys[j]
        /\ \A n \in 1..mi :
              /\ Has(files, extracted[n])
              /\ Get(files, extracted[n]) = matches[n].g2
              /\ \A m \in 1..mi : m # n => extracted[m] # extracted[n]
        /\ pc = "returned" => mi = Len(matches)

\* the blocks a/b.txt, a/b.txt, a/b_v1.txt went through one pass
C1_Witness ==
    /\ pc = "returned"
    /\ Len(matches) = 3
    /\ <<Declared(1), Declared(2), Declared(3)>> = <<"a/b.txt", "a/b.txt", "a/b_v1.txt">>
    /\ matches[1].g2 # matches[2].g2
    /\ Len(files.keys) = 3

\* the name of the k-th occurrence of p: p itself, then stem_v(k-1) + extension
Variant(p, k) ==
    IF k = 1 THEN p
    ELSE splitext(p).base \o "_v" \o IntToStr(k - 1) \o splitext(p).ext

\* C2: when every block of a pass declares the same path p, the keys are
\* exactly p, stem_v1+ext, ..., stem_v(n-1)+ext in that order, and the k-th
\* occurrence's content is under the k-th of them.
C2_VariantNames ==
    (/\ pc = "returned"
     /\ Len(matches) >= 1
     /\ \A n \in 1..Len(matches) : Declared(n) = Declared(1)) =>
        /\ files.keys = [k \in 1..Len(matches) |-> Variant(Declared(1), k)]
        /\ \A k \in 1..Len(matches) :
              Get(files, Variant(Declared(1), k)) = matches[k].g2

\* three blocks for the extension-less path b ended as b, b_v1, b_v2
C2_Witness ==
    /\ pc = "returned"
    /\ Len(matches) = 3
    /\ \A n \in 1..3 : Declared(n) = "b"
    /\ files.keys = <<"b", "b_v1", "b_v2">>
    /\ matches[1].g2 # matches[2].g2

(***************************************************************************)
(* SpecHeredoc: the heredoc pass over blocks whose bodies hold lines that  *)
(* start with EOF                                                          *)
(***************************************************************************)
MaxHeredocBlocks == 2

BodyLines == {"x", "EOFX"}

\* bodies of one line or more, so that a newline stands before the closing line
HeredocBodyBlocks ==
    [path : {"a", "b"}, lines : SeqsUpTo(BodyLines, MaxBodyLines) \ {<< >>}]

InitHeredoc ==
    /\ pc = "scan"
    /\ source = "heredoc"
    /\ \E blocks \in SeqsUpTo(HeredocBodyBlocks, MaxHeredocBlocks) :
          text = RenderBlocks("heredoc", blocks)
    /\ matches = << >> /\ mi = 0 /\ files = EmptyDict /\ extracted = << >>
    /\ IdleNorm /\ IdleReport /\ IdleMain

NextHeredoc ==
    \/ HeredocScan
    \/ HeredocLoopStep
    \/ ReturnFiles

SpecHeredoc == InitHeredoc /\ [][NextHeredoc]_vars

\* the lines of s from index i on, without their newlines
SplitLines(s, i) ==
    LET newlines == {k \in i..Len(s) : At(s, k) = "\n"}
        starts == {a \in {i} \cup {k + 1 : k \in newlines} : a <= Len(s)}
        start(n) == CHOOSE a \in starts : Cardinality({b \in starts : b < a}) = n - 1
        stop(a) == Min({k \in newlines : k >= a} \cup {Len(s) + 1})
    IN  [n \in 1..Cardinality(starts) |-> SubSeq(s, start(n), stop(start(n)) - 1)]

\* a line of the exact shape  cat > <path> << 'EOF'
IsOpeningLine(line) ==
    LET path == SubSeq(line, Len(HeredocOpen) + 1, Len(line) - Len(" << 'EOF'"))
    IN  /\ line = HeredocOpen \o path \o " << 'EOF'"
        /\ path # ""
        /\ \A k \in 1..Len(path) : ~IsSpace(At(path, k)) /\ At(path, k) # "<"

OpeningPath(line) == SubSeq(line, Len(HeredocOpen) + 1, Len(line) - Len(" << 'EOF'"))

RECURSIVE WellFormedBlocks(_, _)
\* the well-formed heredoc blocks of a text given by its lines, left to right
\* and non-overlapping: an opening line, then the lines up to the first line
\* that is exactly EOF
WellFormedBlocks(lines, n) ==
    IF n > Len(lines) THEN << >>
    ELSE LET closing == {m \in (n + 1)..Len(lines) : lines[m] = "EOF"}
         IN  IF IsOpeningLine(lines[n]) /\ closing # {}
             THEN <<[path |-> OpeningPath(lines[n]),
                     body |-> JoinFrom("\n", [k \in 1..(Min(closing) - n - 1) |->
                                                 PyStr(lines[n + k])], 1)]>>
                    \o WellFormedBlocks(lines, Min(closing) + 1)
             ELSE WellFormedBlocks(lines, n + 1)

\* C4: every well-formed block yields its own entry, whose content is exactly
\* the text between the opening line and the first following line that is
\* exactly EOF, without the newline before that line; a body line that only
\* starts with EOF is part of the content.
C4_ContentBoundary ==
    pc = "returned" =>
        LET blocks == WellFormedBlocks(SplitLines(text, 1), 1)
        IN  /\ Len(extracted) = Len(blocks)
            /\ \A n \in 1..Len(blocks) :
                  /\ n <= Len(matches)
                  /\ matches[n].g1 = blocks[n].path
                  /\ Get(files, extracted[n]) = blocks[n].body

(***************************************************************************)
(* SpecNormalize: one call of _parse_json_content                          *)
(***************************************************************************)
\* JSON texts of the values an envelope key may hold: the shapes of a chat
\* request or response, and wrong shapes
EnvelopeValues ==
    { "5", "null", "[]", "{}", "\"abc\"", "[5]", "[\"content\"]", "{\"a\": 1}",
      "[{\"role\": \"user\"}]",
      "[{\"content\": \"cat > a << 'EOF'\\nx\\nEOF\"}, {\"content\": \"hi\"}]",
      "[{\"content\": 5}]",
      "[{\"delta\": {\"content\": \"d\"}}]",
      "[{\"delta\": {}, \"message\": {\"content\": \"m\"}}]",
      "[{\"delta\": {\"content\": null}}]",
      "[{\"message\": 5}]" }

\* raw texts: plain text, JSON that is no envelope, and envelopes
RawTexts ==
    {"plain, not json", "", "{", "\"quoted\"", "12", "[1, 2]", "{\"a\": 1,}"}
        \cup {"{\"" \o k \o "\": " \o v \o "}" :
                 k \in {"messages", "choices", "model"}, v \in EnvelopeValues}

InitNormalize ==
    /\ pc = "call"
    /\ arg_content \in RawTexts
    /\ arg_is_request \in BOOLEAN
    /\ outcome = NotCalled
    /\ IdlePass /\ IdleReport /\ IdleMain

\* the call _parse_json_content(content, is_request) and how it ends
ParseJsonContentCall ==
    /\ pc = "call"
    /\ outcome' = ParseJsonContent(PyStr(arg_content), arg_is_request)
    /\ pc' = "done"
    /\ UNCHANGED <<arg_content, arg_is_request, passVars, reportVars, mainVars>>

NextNormalize == ParseJsonContentCall

SpecNormalize == InitNormalize /\ [][NextNormalize]_vars

\* the envelope of a request: an object whose `messages` is a list of objects
\* whose `content`, where present, is text
GoodRequest(v) ==
    /\ HasKey(v, "messages")
    /\ Item(v, "messages").t = "list"
    /\ \A n \in 1..Len(Item(v, "messages").items) :
          LET msg == Item(v, "messages").items[n]
          IN  msg.t = "dict" /\ (HasKey(msg, "content") => IsStr(Item(msg, "content")))

\* choice holds text at choice[name].content
HoldsText(choice, name) ==
    /\ HasKey(choice, name)
    /\ HasKey(Item(choice, name), "content")
    /\ IsStr(Item(Item(choice, name), "content"))

\* the envelope of a response: an object whose `choices` is a non-empty list,
\* its first element an object with text at delta.content or message.content
GoodResponse(v) ==
    /\ HasKey(v, "choices")
    /\ Item(v, "choices").t = "list"
    /\ Len(Item(v, "choices").items) > 0
    /\ Item(v, "choices").items[1].t = "dict"
    /\ \/ HoldsText(Item(v, "choices").items[1], "delta")
       \/ HoldsText(Item(v, "choices").items[1], "message")

\* C3: normalisation never raises and returns a text; when decoding fails, the
\* decoded value is neither an object nor a string, or a lookup on the
\* envelope fails (missing key, empty list, wrong shape), it returns the raw
\* text unchanged.
C3_NeverRaises ==
    pc = "done" =>
        LET r == json_loads(arg_content)
            fallback == \/ ~r.ok
                        \/ r.v.t \notin {"dict", "str"}
                        \/ r.v.t = "dict" /\ arg_is_request /\ ~GoodRequest(r.v)
                        \/ r.v.t = "dict" /\ ~arg_is_request /\ ~GoodResponse(r.v)
        IN  /\ outcome.kind = "return"
            /\ IsStr(outcome.v)
            /\ fallback => outcome.v.s = arg_content

(***************************************************************************)
(* SpecTree: one call of _extract_file_tree_from_text                      *)
(***************************************************************************)
MaxTreeSegs == 4

\* the opening tags of the three conventions, each with some interior text
\* after it, their closing tags, an opening CODEBASE tag that is never closed
\* by ">", and text that belongs to no tag
TreeSegs ==
    {"<TEMPLATE_FILE_TREE> t\n", "</TEMPLATE_FILE_TREE>", "<FILE_TREE>u", "</FILE_TREE>",
     "<CODEBASE_X a> c", "</CODEBASE>", "<CODEBASE", "v "}

InitTree ==
    /\ pc = "call"
    /\ \E segs \in SeqsUpTo(TreeSegs, MaxTreeSegs) : text = Concat(segs, 1)
    /\ source = "" /\ matches = << >> /\ mi = 0 /\ files = EmptyDict /\ extracted = << >>
    /\ IdleNorm /\ IdleReport /\ IdleMain

\* the call _extract_file_tree_from_text(text)
ExtractFileTreeCall ==
    /\ pc = "call"
    /\ serialized_tree' = ExtractFileTree(text)
    /\ pc' = "done"
    /\ UNCHANGED <<passVars, normVars, request_files, response_files, report, mainVars>>

NextTree == ExtractFileTreeCall

SpecTree == InitTree /\ [][NextTree]_vars

\* open stands at i and close somewhere after it (after the first ">" that
\* follows open, when the open tag ends there)
TagAt(s, i, open, gt, close) ==
    /\ StartsWithAt(s, i, open)
    /\ \E k \in (i + Len(open))..Len(s) :
          /\ StartsWithAt(s, k, close)
          /\ gt => \E j \in (i + Len(open))..(k - 1) : At(s, j) = ">"

\* the convention matches somewhere in s
TagMatches(s, open, gt, close) == \E i \in 1..Len(s) : TagAt(s, i, open, gt, close)

\* the interior of the leftmost match: from the end of the open tag to the
\* first close tag
TagInterior(s, open, gt, close) ==
    LET i == CHOOSE i \in 1..Len(s) :
                 /\ TagAt(s, i, open, gt, close)
                 /\ \A h \in 1..(i - 1) : ~TagAt(s, h, open, gt, close)
        b == IF gt THEN 1 + (CHOOSE j \in (i + Len(open))..Len(s) :
                                /\ At(s, j) = ">"
                                /\ \A h \in (i + Len(open))..(j - 1) : At(s, h) # ">")
             ELSE i + Len(open)
        e == CHOOSE k \in b..Len(s) :
                 /\ StartsWithAt(s, k, close)
                 /\ \A h \in b..(k - 1) : ~StartsWithAt(s, h, close)
    IN  SubSeq(s, b, e - 1)

\* C7: the locator returns the trimmed interior of the highest-priority
\* convention that matches anywhere in the text (TEMPLATE_FILE_TREE, then
\* FILE_TREE, then CODEBASE...), wherever the other tags stand, and returns
\* absent exactly when none of the three matches.
C7_TreePriority ==
    pc = "done" =>
        IF TagMatches(text, "<TEMPLATE_FILE_TREE>", FALSE, "</TEMPLATE_FILE_TREE>")
        THEN serialized_tree =
                Some(Strip(TagInterior(text, "<TEMPLATE_FILE_TREE>", FALSE,
                                       "</TEMPLATE_FILE_TREE>")))
        ELSE IF TagMatches(text, "<FILE_TREE>", FALSE, "</FILE_TREE>")
        THEN serialized_tree =
                Some(Strip(TagInterior(text, "<FILE_TREE>", FALSE, "</FILE_TREE>")))
        ELSE IF TagMatches(text, "<CODEBASE", TRUE, "</CODEBASE>")
        THEN serialized_tree =
                Some(Strip(TagInterior(text, "<CODEBASE", TRUE, "</CODEBASE>")))
        ELSE serialized_tree.isNone

\* a FILE_TREE element stands before a TEMPLATE_FILE_TREE element, and the
\* locator returned the interior of the latter
C7_Witness ==
    /\ pc = "done"
    /\ text = "<FILE_TREE>u</FILE_TREE><TEMPLATE_FILE_TREE> t\n</TEMPLATE_FILE_TREE>"
    /\ serialized_tree = Some("t")

(***************************************************************************)
(* The report of two mappings: _generate_report on mappings over a small   *)
(* set of paths, with and without a serialized tree                        *)
(***************************************************************************)
ReportPaths == {"x.py", "a/b.txt", "main.py"}

ReportTrees == {None, Some(""), Some("src/\n  x.py")}

\* the mapping of the paths of S, each with the content c
MappingOf(S, c) == [keys |-> SortedSet(S), val |-> [n \in 1..Cardinality(S) |-> c]]

ReportExtractor ==
    [log_path |-> "logs/one.json", log_data |-> PyNone, chat_id |-> PyStr("c1"),
     action_key |-> PyStr("k"), output_dir |-> OutputDir(PyStr("k"), PyStr("c1"))]

InitReport ==
    /\ pc = "report"
    /\ \E S \in SUBSET ReportPaths : request_files = MappingOf(S, "A")
    /\ \E S \in SUBSET ReportPaths : response_files = MappingOf(S, "B")
    /\ serialized_tree \in ReportTrees
    /\ report = ""
    /\ IdlePass /\ IdleNorm
    /\ log_files = << >> /\ fi = 0 /\ total_files = 0 /\ stdout = << >>
    /\ extractor = ReportExtractor /\ request_head = PyNone /\ response_head = PyNone
    /\ structured_files = EmptyDict /\ structured_response = EmptyDict
    /\ fs = {} /\ raised = "" /\ memo = << >>

\* the call _generate_report(request_files, response_files, serialized_tree)
GenerateReportCall ==
    /\ pc = "report"
    /\ \E o \in {GenerateReport(extractor, request_files, response_files, serialized_tree)} :
           IF o.kind = "raise"
           THEN RaiseToMain(o.exc) /\ UNCHANGED report
           ELSE pc' = "write_report" /\ report' = o.v.s /\ UNCHANGED raised
    /\ UNCHANGED <<passVars, normVars, memo, serialized_tree, request_files, response_files,
                   log_files, fi, total_files, stdout, extractor, request_head,
                   response_head, structured_files, structured_response, fs>>

NextReport == GenerateReportCall

SpecReport == InitReport /\ [][NextReport]_vars

\* the lines of the report r after the line title, up to the next rule-framed title
SectionLines(r, title) ==
    LET lines == SplitLines(r, 1)
        at == {n \in 1..Len(lines) : lines[n] = title}
        start == Min(at) + 2
        stops == {n \in start..Len(lines) : lines[n] = Rule}
    IN  IF at = {} THEN << >>
        ELSE SubSeq(lines, start, IF stops = {} THEN Len(lines) ELSE Min(stops) - 1)

\* the lines of `lines` that start with prefix, in order
LinesWith(lines, prefix) ==
    LET Test(l) == StartsWithAt(l, 1, prefix) IN SelectSeq(lines, Test)

\* the paths the warning lists, in the order of the report
ListedPaths(r) ==
    LET listed == LinesWith(SectionLines(r, "## COMPARISON"), "  - ")
    IN  [n \in 1..Len(listed) |-> SubSeq(listed[n], 5, Len(listed[n]))]

\* C6: the comparison section of the report states the number of request
\* files, the number of response files and their sum; the overlap warning
\* is there exactly when some path is a key of both mappings, it states the
\* number of such paths, and it lists each of them once, in sorted order,
\* and no other path.
C6_OverlapAndCounts ==
    pc = "write_report" =>
        LET sec == SectionLines(report, "## COMPARISON")
            both == KeySet(request_files) \cap KeySet(response_files)
            n == Cardinality(KeySet(request_files))
            m == Cardinality(KeySet(response_files))
            warnings == LinesWith(sec, WarningSign)
            listed == ListedPaths(report)
        IN  /\ LinesWith(sec, "Request files:") = <<"Request files:  " \o IntToStr(n)>>
            /\ LinesWith(sec, "Response files:") = <<"Response files: " \o IntToStr(m)>>
            /\ LinesWith(sec, "Total files:") = <<"Total files:    " \o IntToStr(n + m)>>
            /\ (both # {}) <=> (warnings # << >>)
            /\ both # {} =>
                  warnings = <<WarningSign \o "  WARNING: " \o IntToStr(Cardinality(both))
                               \o " files appear in both request and response:">>
            /\ Len(listed) = Cardinality(both)
            /\ Range(listed) = both
            /\ \A i, j \in 1..Len(listed) : i < j => StrLess(listed[i], listed[j])

\* x.py is extracted on both sides with different contents, and the report
\* warns of one file in both and lists x.py
C6_Witness ==
    /\ pc = "write_report"
    /\ request_files = MappingOf({"x.py"}, "A")
    /\ response_files = MappingOf({"x.py"}, "B")
    /\ ListedPaths(report) = <<"x.py">>
    /\ LinesWith(SectionLines(report, "## COMPARISON"), WarningSign) # << >>

(***************************************************************************)
(* Whole runs of main over log files written as the gateway writes them    *)
(***************************************************************************)
MaxLogFiles == 2

\* sys.argv[1:] of a run with at least one log file
InitMain ==
    /\ pc = "main"
    /\ log_files \in SeqsUpTo(LogPool, MaxLogFiles) \ {<< >>}
    /\ fi = 0 /\ total_files = 0 /\ stdout = << >>
    /\ extractor = NoExtractor /\ request_head = PyNone /\ response_head = PyNone
    /\ structured_files = EmptyDict /\ structured_response = EmptyDict
    /\ fs = {} /\ raised = "" /\ memo = PoolResults
    /\ IdlePass /\ IdleNorm /\ IdleReport

NextMain ==
    \/ MainMissing
    \/ MainConstruct
    \/ NormalizeRequest
    \/ HeredocRequest
    \/ StructuredRequest
    \/ UpdateRequest
    \/ LocateTree
    \/ NormalizeResponse
    \/ HeredocResponse
    \/ StructuredResponse
    \/ UpdateResponse
    \/ SaveRequest
    \/ SaveResponse
    \/ GenerateReportStep
    \/ WriteReport
    \/ ReturnCount
    \/ HandleException
    \/ MainFinish

\* the interpreter runs main to its end: no step waits for anything
SpecMain == InitMain /\ [][NextMain]_vars /\ WF_vars(NextMain)

\* the number a string of digits writes
StrToInt(digits) ==
    LET value[n \in 0..Len(digits)] ==
            IF n = 0 THEN 0
            ELSE 10 * value[n - 1] + (CHOOSE d \in 0..9 : Digit(d) = At(digits, n))
    IN  value[Len(digits)]

\* what print wrote for a log file is a report
IsReport(entry) == StartsWithAt(entry, 1, Rule \o "\nFILE EXTRACTION REPORT\n")

\* the number the comparison section of report r gives after label
CountAfter(r, label) ==
    With(LinesWith(SectionLines(r, "## COMPARISON"), label), LAMBDA found :
        StrToInt(SubSeq(found[1], Len(label) + 1, Len(found[1]))))

ReportedCount(r) == CountAfter(r, "Request files:  ") + CountAfter(r, "Response files: ")

\* the number of files one side's text holds: the paths of the two passes
SideCount(side_text) ==
    Cardinality(KeySet(ExtractFilesFromText(side_text))
                \cup KeySet(ExtractStructuredFiles(side_text)))

\* the text of one side of a log file, taken alone
SideTextOf(file, key, is_request) ==
    ParseJsonContent(DictGetOr(json_loads(file.data).v, key, PyStr("")), is_request).v.s

\* the files a log file holds, taken alone
RecordCount(file) ==
    SideCount(SideTextOf(file, "request_head", TRUE))
        + SideCount(SideTextOf(file, "response_head", FALSE))

\* the sum of the counts of the reports among the first n entries of stdout
ReportedSum(n) ==
    LET total[k \in 0..n] ==
            IF k = 0 THEN 0
            ELSE total[k - 1] + (IF IsReport(stdout[k]) THEN ReportedCount(stdout[k]) ELSE 0)
    IN  total[n]

\* stdout holds, in argument order, one entry for each log file and then the tally
BatchComplete ==
    /\ fi = Len(log_files)
    /\ Len(stdout) = Len(log_files) + 1
    /\ \A n \in 1..Len(log_files) :
          IF ~log_files[n].exists
          THEN stdout[n] = CrossMark \o " Error: File not found: " \o log_files[n].name
          ELSE \/ StartsWithAt(stdout[n], 1,
                      CrossMark \o " Error processing " \o log_files[n].name \o ": ")
               \/ /\ IsReport(stdout[n])
                  /\ \E line \in Range(SplitLines(stdout[n], 1)) :
                        line = "  Log File:    " \o PathName(log_files[n].name)
                  /\ ReportedCount(stdout[n]) = RecordCount(log_files[n])
    /\ total_files = ReportedSum(Len(log_files))
    /\ stdout[Len(stdout)] = "\nTotal files extracted: " \o IntToStr(total_files)

\* C5: every run over one or more log files reaches the final tally; by then
\* every log file was attempted, in argument order: a missing file has its
\* not-found message, a file whose loading or processing failed has its
\* error message and adds nothing, a file that completed has its report
\* with the counts of its own texts alone; and the tally printed is the sum
\* of the request and response counts of the completed files.
C5_BatchIsolation == [](pc = "done" => BatchComplete) /\ <>(pc = "done")

\* a record that fails after its request side was extracted, then a record
\* that completes with two files
C5_Witness ==
    /\ pc = "done"
    /\ log_files = <<BadResponseLog, EndToEndLog>>
    /\ StartsWithAt(stdout[1], 1, CrossMark \o " Error processing logs/badresp.json")
    /\ IsReport(stdout[2])
    /\ stdout[3] = "\nTotal files extracted: 2"

TreeTitle == "## SERIALIZED FILE TREE (from request metadata)"

\* C8: the report has the serialized-file-tree section, with the located
\* text verbatim, exactly when the locator returned a value for the
\* request-side text, whatever the value; it has no such section exactly
\* when the locator returned absent.
C8_TreeSection ==
    pc \in {"write_report", "return"} =>
        /\ serialized_tree.isNone <=> (\A line \in Range(SplitLines(report, 1)) : line # TreeTitle)
        /\ ~serialized_tree.isNone =>
              FindFrom(report, TreeTitle \o "\n" \o Rule \o "\n\n" \o serialized_tree.s
                               \o "\n\n" \o Rule, 1) # 0

\* final is the merge of the two passes over side_text: the keys of both,
\* the structured content where both have the key
MergeOf(final, side_text) ==
    /\ KeySet(final) = KeySet(ExtractFilesFromText(side_text))
                           \cup KeySet(ExtractStructuredFiles(side_text))
    /\ Len(final.keys) = Cardinality(KeySet(final))
    /\ \A k \in KeySet(final) :
          Get(final, k) = IF Has(ExtractStructuredFiles(side_text), k)
                          THEN Get(ExtractStructuredFiles(side_text), k)
                          ELSE Get(ExtractFilesFromText(side_text), k)

AfterResponseMerge == {"save_request", "save_response", "report", "write_report", "return"}

AfterRequestMerge ==
    {"locate_tree", "normalize_response", "heredoc_response", "structured_response",
     "update_response"} \cup AfterResponseMerge

\* C9: once a side is merged, its mapping has the keys of its heredoc pass
\* and of its structured pass; a key of both passes has the structured
\* content, a key of one pass has that pass's content; and the request
\* mapping stays so while the response side is extracted and merged.
C9_PerSideMerge ==
    /\ pc \in AfterRequestMerge => MergeOf(request_files, request_head.s)
    /\ pc \in AfterResponseMerge => MergeOf(response_files, response_head.s)

\* a.py is declared twice as heredoc and once structured in the request and
\* once as heredoc in the response: the request keeps the structured a.py
\* and the renamed second heredoc, the response its own a.py
C9_Witness ==
    /\ pc = "return"
    /\ request_files = [keys |-> <<"a.py", "a_v1.py">>, val |-> <<"S1\n", "H2">>]
    /\ structured_files = [keys |-> <<"a.py">>, val |-> <<"S1\n">>]
    /\ response_files = [keys |-> <<"a.py">>, val |-> <<"R">>]

\* path, resolved, is below the directory dir
Inside(path, dir) ==
    /\ Len(path) > Len(Resolve(dir))
    /\ SubSeq(path, 1, Len(Resolve(dir))) = Resolve(dir)

\* C10: every file a step writes lies in the output directory of its
\* record: a request file below request/, a response file below response/,
\* and the report is REPORT.md in the directory itself.
C10_Containment ==
    [][\A e \in fs' \ fs :
          e.kind = "file" =>
              CASE pc = "save_request" ->
                      Inside(e.path, PathJoin(extractor.output_dir, "request"))
                [] pc = "save_response" ->
                      Inside(e.path, PathJoin(extractor.output_dir, "response"))
                [] OTHER ->
                      e.path = Resolve(PathJoin(extractor.output_dir, "REPORT.md"))]_vars

=============================================================================
